---- MODULE Spec2Model ----
(***************************************************************************)
(* Model of the retrieval-augmented chat service: embedding -> vector      *)
(* search -> context building -> prompt -> generation, and the /chatbot    *)
(* endpoint in front of it.                                                *)
(*                                                                         *)
(* Text is a sequence of one-character strings (a fixed literal of the     *)
(* source is kept as one piece).  A Python value that may be None, a str   *)
(* or something else is a tagged record [t, s].  Every request is          *)
(* independent (the program keeps no state between requests), so one       *)
(* action is one whole call of one operation and the variables hold what   *)
(* that call was given, what it did and what it returned.                  *)
(***************************************************************************)
EXTENDS Integers, Sequences, FiniteSets, TLC

VARIABLES
    GEMINI_API_KEY,  \* TRUE iff the credential is configured
    SUPABASE_ENV,    \* TRUE iff SUPABASE_URL and SUPABASE_KEY are configured
    rag_agent,       \* "None" or "RAGAgent": the global of main.py
    model,           \* "None" or "GenerativeModel": rag_agent.model
    op,              \* the operation the last step executed
    in_text,         \* its text argument (query, message)
    in_vec,          \* its embedding argument
    in_docs,         \* its docs argument
    world,           \* the outcomes of the external calls it issued
    calls,           \* the remote calls it issued, in order
    raised,          \* TRUE iff it raised to its caller
    out_vec,         \* embedding it returned
    out_docs,        \* list-or-None it returned (search result, retrieved_docs)
    out_text,        \* text it returned (context, reply)
    prompt,          \* prompt handed to the generation call
    status,          \* HTTP status of the response (0: not an HTTP operation)
    reached          \* TRUE iff generate_response was entered

vars == <<GEMINI_API_KEY, SUPABASE_ENV, rag_agent, model, op, in_text, in_vec,
          in_docs, world, calls, raised, out_vec, out_docs, out_text, prompt, status,
          reached>>

config == <<GEMINI_API_KEY, SUPABASE_ENV, rag_agent, model>>

----------------------------------------------------------------------------
(* Bounds *)

\* longest document list the vector store returns in the model
MaxDocs == 2

----------------------------------------------------------------------------
(* Python values *)

PyNone == [t |-> "none", s |-> << >>]
PyStr(s) == [t |-> "str", s |-> s]
\* a value that is neither None nor a str and is truthy (a number such as 5)
PyOther == [t |-> "other", s |-> << >>]

\* bool(v)
Truthy(v) == v.t = "other" \/ (v.t = "str" /\ v.s # << >>)

\* Optional list: None or a list
NoneList == [none |-> TRUE, list |-> << >>]
SomeList(l) == [none |-> FALSE, list |-> l]

\* A document of the search result: a dict with or without the key
\* 'content', or an element that is no dict at all.
Doc(isdict, has, content) == [isdict |-> isdict, has |-> has, content |-> content]

Contents == { PyNone, PyStr(<< >>), PyStr(<<"a">>), PyStr(<<"b">>), PyOther }

Docs ==
    { Doc(FALSE, FALSE, PyNone), Doc(TRUE, FALSE, PyNone) }
    \cup { Doc(TRUE, TRUE, c) : c \in Contents }

RECURSIVE SeqsUpTo(_, _)
SeqsUpTo(S, n) ==
    IF n = 0 THEN { << >> }
    ELSE LET shorter == SeqsUpTo(S, n - 1)
         IN  shorter \cup { Append(l, x) : l \in { s \in shorter : Len(s) = n - 1 }, x \in S }

DocLists == SeqsUpTo(Docs, MaxDocs)

Queries == { << >>, <<" ">>, <<"q">>, <<" ", "q">> }

----------------------------------------------------------------------------
(* build_context_string *)

\* doc.get('content', default)
DocGet(doc, default) == IF doc.has THEN doc.content ELSE default

\* "\n---\n"
Delimiter == <<"\n", "-", "-", "-", "\n">>

\* sep.join(parts) on a list of str values
RECURSIVE Join(_, _)
Join(sep, parts) ==
    IF parts = << >> THEN << >>
    ELSE IF Len(parts) = 1 THEN parts[1].s
         ELSE parts[1].s \o sep \o Join(sep, Tail(parts))

\* str.join raises TypeError when an item is not a str
JoinRaises(parts) == \E i \in 1..Len(parts) : parts[i].t # "str"

\* the condition of the comprehension of line 142:
\* isinstance(doc, dict) and doc.get('content')
HasContent(doc) == doc.isdict /\ Truthy(DocGet(doc, PyNone))

\* the element of the comprehension of line 142: doc.get('content', '')
ContentOf(doc) == DocGet(doc, PyStr(<< >>))

\* build_context_string(docs): [raised, value]
build_context_string(docs) ==
    IF docs.none THEN [raised |-> FALSE, value |-> << >>]
    ELSE IF docs.list = << >> THEN [raised |-> FALSE, value |-> << >>]
    ELSE LET kept == SelectSeq(docs.list, HasContent)
             contents == [i \in 1..Len(kept) |-> ContentOf(kept[i])]
             valid_contents == SelectSeq(contents, Truthy)
         IN  IF valid_contents = << >> THEN [raised |-> FALSE, value |-> << >>]
             ELSE IF JoinRaises(valid_contents) THEN [raised |-> TRUE, value |-> << >>]
             ELSE [raised |-> FALSE, value |-> Join(Delimiter, valid_contents)]

----------------------------------------------------------------------------
(* Outcomes of the remote services, drawn per request *)

NoVec == [none |-> TRUE, vec |-> << >>]
SomeVec(v) == [none |-> FALSE, vec |-> v]

\* genai.embed_content_async: raises, or returns result['embedding']
EmbedOutcomes ==
    { [raise |-> TRUE, embedding |-> << >>],
      [raise |-> FALSE, embedding |-> << >>],
      [raise |-> FALSE, embedding |-> <<1>>] }

\* create_client: raises or returns a client
ClientOutcomes == { [raise |-> TRUE], [raise |-> FALSE] }

\* supabase.rpc(...).execute(): raises, or returns response.data
RpcOutcomes ==
    { [raise |-> TRUE, data |-> NoneList], [raise |-> FALSE, data |-> NoneList] }
    \cup { [raise |-> FALSE, data |-> SomeList(l)] : l \in DocLists }

Texts == { PyNone, PyStr(<< >>), PyStr(<<" ">>), PyStr(<<"o", "k">>),
           PyStr(<<" ", "o", "k", "\n">>) }

\* model.generate_content_async: raises, returns a falsy response, returns a
\* response whose .text accessor raises, or a response with .text
GenOutcomes ==
    { [kind |-> k, text |-> PyNone] : k \in {"raise", "falsy", "text_raises"} }
    \cup { [kind |-> "text", text |-> t] : t \in Texts }

Envs == [embed : EmbedOutcomes, client : ClientOutcomes, rpc : RpcOutcomes,
         gen : GenOutcomes]

\* an operation that cannot reach a service is given one fixed outcome for it
DefaultEmbed == [raise |-> TRUE, embedding |-> << >>]
DefaultClient == [raise |-> TRUE]
DefaultRpc == [raise |-> TRUE, data |-> NoneList]
DefaultGen == [kind |-> "raise", text |-> PyNone]
DefaultEnv(e, c, r, g) == [embed |-> e, client |-> c, rpc |-> r, gen |-> g]
AnyEnv == DefaultEnv(DefaultEmbed, DefaultClient, DefaultRpc, DefaultGen)

----------------------------------------------------------------------------
(* services/supabase_service.py *)

\* get_supabase_client(): [client, calls]; client is TRUE iff a client is
\* returned (None otherwise)
get_supabase_client(env_set, outcome) ==
    IF ~env_set THEN [client |-> FALSE, calls |-> << >>]
    ELSE IF outcome.raise THEN [client |-> FALSE, calls |-> <<"create_client">>]
    ELSE [client |-> TRUE, calls |-> <<"create_client">>]

\* get_gemini_embedding that calls the provider a second time when the first
\* call raised
get_gemini_embedding_retries(key, text, outcome) ==
    IF ~key THEN [ret |-> NoVec, calls |-> << >>]
    ELSE IF text = << >> THEN [ret |-> NoVec, calls |-> << >>]
    ELSE IF outcome.raise THEN [ret |-> NoVec, calls |-> <<"embed", "embed">>]
    ELSE IF outcome.embedding = << >> THEN [ret |-> NoVec, calls |-> <<"embed">>]
    ELSE [ret |-> SomeVec(outcome.embedding), calls |-> <<"embed">>]

\* get_gemini_embedding(text): [ret, calls]
get_gemini_embedding(key, text, outcome) ==
    IF ~key THEN [ret |-> NoVec, calls |-> << >>]
    ELSE IF text = << >> THEN [ret |-> NoVec, calls |-> << >>]
    ELSE IF outcome.raise THEN [ret |-> NoVec, calls |-> <<"embed">>]
    ELSE IF outcome.embedding = << >> THEN [ret |-> NoVec, calls |-> <<"embed">>]
    ELSE [ret |-> SomeVec(outcome.embedding), calls |-> <<"embed">>]

\* CallRpc that returns the falsy data as it is: None for a response with
\* no data
CallRpcReturnsData(c, rpc) ==
    IF rpc.raise THEN [ret |-> NoneList, calls |-> c]
    ELSE [ret |-> rpc.data, calls |-> c]

\* lines 105-131 of query_supabase_vector, once the client is there
CallRpc(c, rpc) ==
    IF rpc.raise THEN [ret |-> NoneList, calls |-> c]
    ELSE IF ~rpc.data.none /\ rpc.data.list # << >>
         THEN [ret |-> rpc.data, calls |-> c]
         ELSE [ret |-> SomeList(<< >>), calls |-> c]

\* lines 99-131 of query_supabase_vector, given what get_supabase_client
\* returned
WithClient(supabase, rpc) ==
    IF ~supabase.client THEN [ret |-> NoneList, calls |-> supabase.calls]
    ELSE CallRpc(supabase.calls \o <<"rpc">>, rpc)

\* query_supabase_vector(embedding): [ret, calls]
query_supabase_vector(env_set, embedding, client, rpc) ==
    IF embedding = << >> THEN [ret |-> NoneList, calls |-> << >>]
    ELSE WithClient(get_supabase_client(env_set, client), rpc)

----------------------------------------------------------------------------
(* tools/vector_tool.py *)

\* The try block of retrieve_and_build_context, stage by stage.  Each stage
\* yields [exc, context, retrieved_docs, calls]; exc is TRUE when an
\* exception leaves the block.

\* the early returns of lines 34, 41 and 45
EarlyReturn(c) ==
    [exc |-> FALSE, context |-> << >>, retrieved_docs |-> SomeList(<< >>), calls |-> c]

\* AfterBuild without the assignment of line 48: retrieved_docs stays []
AfterBuildForgetsDocs(c, similar_docs, b) ==
    IF b.raised
    THEN [exc |-> TRUE, context |-> << >>, retrieved_docs |-> SomeList(<< >>), calls |-> c]
    ELSE [exc |-> FALSE, context |-> b.value, retrieved_docs |-> SomeList(<< >>), calls |-> c]

\* lines 51-53 and 62, given what build_context_string did
AfterBuild(c, similar_docs, b) ==
    IF b.raised
    THEN [exc |-> TRUE, context |-> << >>, retrieved_docs |-> similar_docs, calls |-> c]
    ELSE [exc |-> FALSE, context |-> b.value, retrieved_docs |-> similar_docs, calls |-> c]

\* lines 39-53, given what query_supabase_vector returned
AfterSearch(c, q) ==
    IF q.ret.none THEN EarlyReturn(c \o q.calls)
    ELSE IF q.ret.list = << >> THEN EarlyReturn(c \o q.calls)
    ELSE AfterBuild(c \o q.calls, q.ret, build_context_string(q.ret))

\* lines 31-53, given what get_gemini_embedding returned
AfterEmbedding(env_set, env, e) ==
    IF e.ret.none THEN EarlyReturn(e.calls)
    ELSE AfterSearch(e.calls, query_supabase_vector(env_set, e.ret.vec, env.client, env.rpc))

\* lines 28-53
RetrieveBody(key, env_set, query, env) ==
    AfterEmbedding(env_set, env, get_gemini_embedding(key, query, env.embed))

\* RetrieveCatch without the except clause: the exception leaves the call
RetrieveCatchPropagates(r) ==
    [raised |-> r.exc, context |-> r.context, retrieved_docs |-> r.retrieved_docs,
     calls |-> r.calls]

\* RetrieveCatch whose except clause returns the retrieved_docs local instead
\* of a fresh empty list
RetrieveCatchKeepsDocs(r) ==
    [raised |-> FALSE, context |-> r.context, retrieved_docs |-> r.retrieved_docs,
     calls |-> r.calls]

\* the except clause of lines 55-59, and the return of line 62
RetrieveCatch(r) ==
    IF r.exc
    THEN [raised |-> FALSE, context |-> << >>,
          retrieved_docs |-> SomeList(<< >>), calls |-> r.calls]
    ELSE [raised |-> FALSE, context |-> r.context,
          retrieved_docs |-> r.retrieved_docs, calls |-> r.calls]

\* retrieve_and_build_context(query): [raised, context, retrieved_docs, calls]
retrieve_and_build_context(key, env_set, query, env) ==
    RetrieveCatch(RetrieveBody(key, env_set, query, env))

----------------------------------------------------------------------------
(* agents/rag_agent.py *)

\* the three fixed replies of generate_response (lines 70, 113 and 122; the
\* source's literals are Korean and are rendered in English here)
MsgUnavailable == <<"Sorry. A problem occurred in the chatbot engine, so no answer can be given.">>
MsgBlocked == <<"Sorry. An unexpected problem occurred while generating the answer.">>
MsgError == <<"Sorry. An error occurred while processing the request.">>

Whitespace == {" ", "\n", "\t"}

RECURSIVE LStrip(_)
LStrip(s) == IF s # << >> /\ Head(s) \in Whitespace THEN LStrip(Tail(s)) ELSE s

RECURSIVE RStrip(_)
RStrip(s) ==
    IF s # << >> /\ s[Len(s)] \in Whitespace THEN RStrip(SubSeq(s, 1, Len(s) - 1)) ELSE s

\* str.strip()
Strip(s) == RStrip(LStrip(s))

\* one part of the prompt f-string: a literal of the template or an
\* interpolated value
Part(name, text) == [part |-> name, text |-> text]

\* the prompt of line 88
PromptNoContext(user_query) ==
    << Part("system_instruction", << >>),
       Part("no_context_marker", << >>),
       Part("question_label", << >>),
       Part("user_query", user_query),
       Part("answer_label", << >>) >>

\* the prompt of lines 92-100
PromptWithContext(context, user_query) ==
    << Part("system_instruction", << >>),
       Part("context_begin_marker", << >>),
       Part("context", context),
       Part("context_end_marker", << >>),
       Part("question_label", << >>),
       Part("user_query", user_query),
       Part("answer_label", << >>) >>

\* lines 80-100: the prompt for a retrieved context
BuildPrompt(context, user_query) ==
    IF context = << >> THEN PromptNoContext(user_query)
    ELSE PromptWithContext(context, user_query)

\* lines 106-117: the generation call and what is made of its response
CallModel(gen, c, p) ==
    IF gen.kind = "raise" THEN [exc |-> TRUE, reply |-> << >>, calls |-> c, prompt |-> p]
    ELSE IF gen.kind = "falsy"
    THEN [exc |-> FALSE, reply |-> MsgBlocked, calls |-> c, prompt |-> p]
    ELSE IF gen.kind = "text_raises"
    THEN [exc |-> TRUE, reply |-> << >>, calls |-> c, prompt |-> p]
    ELSE IF ~Truthy(gen.text)
    THEN [exc |-> FALSE, reply |-> MsgBlocked, calls |-> c, prompt |-> p]
    ELSE [exc |-> FALSE, reply |-> Strip(gen.text.s), calls |-> c, prompt |-> p]

\* AfterRetrieval that answers without the model when nothing was retrieved
\* (the alternative left commented out at line 86)
AfterRetrievalSkipsModel(user_query, gen, retrieval_result) ==
    IF retrieval_result.raised
    THEN [exc |-> TRUE, reply |-> << >>, calls |-> retrieval_result.calls,
          prompt |-> << >>]
    ELSE IF retrieval_result.context = << >>
    THEN [exc |-> FALSE, reply |-> MsgBlocked, calls |-> retrieval_result.calls,
          prompt |-> << >>]
    ELSE CallModel(gen, retrieval_result.calls \o <<"generate">>,
                   BuildPrompt(retrieval_result.context, user_query))

\* lines 77-117, given what retrieve_and_build_context did
AfterRetrieval(user_query, gen, retrieval_result) ==
    IF retrieval_result.raised
    THEN [exc |-> TRUE, reply |-> << >>, calls |-> retrieval_result.calls,
          prompt |-> << >>]
    ELSE CallModel(gen, retrieval_result.calls \o <<"generate">>,
                   BuildPrompt(retrieval_result.context, user_query))

\* the try block of generate_response, lines 72-117
GenerateBody(key, env_set, user_query, env) ==
    AfterRetrieval(user_query, env.gen,
                   retrieve_and_build_context(key, env_set, user_query, env))

\* GenerateCatch whose except clause returns the message of line 113
GenerateCatchSameMessage(r) ==
    IF r.exc
    THEN [raised |-> FALSE, reply |-> MsgBlocked, calls |-> r.calls, prompt |-> r.prompt]
    ELSE [raised |-> FALSE, reply |-> r.reply, calls |-> r.calls, prompt |-> r.prompt]

\* the except clause of lines 119-122
GenerateCatch(r) ==
    IF r.exc
    THEN [raised |-> FALSE, reply |-> MsgError, calls |-> r.calls, prompt |-> r.prompt]
    ELSE [raised |-> FALSE, reply |-> r.reply, calls |-> r.calls, prompt |-> r.prompt]

\* generate_response without the model check of lines 68-70
generate_response_unchecked(m, key, env_set, user_query, env) ==
    GenerateCatch(GenerateBody(key, env_set, user_query, env))

\* generate_response(user_query): [raised, reply, calls, prompt]
generate_response(m, key, env_set, user_query, env) ==
    IF m = "None"
    THEN [raised |-> FALSE, reply |-> MsgUnavailable, calls |-> << >>, prompt |-> << >>]
    ELSE GenerateCatch(GenerateBody(key, env_set, user_query, env))

----------------------------------------------------------------------------
(* main.py *)

\* the HTTPException responses of lines 113 and 123
Refused(code) ==
    [status |-> code, reply |-> << >>, calls |-> << >>, prompt |-> << >>,
     reached |-> FALSE]

\* Respond that turns the generic error reply into a server error
RespondErrorAs500(g) ==
    IF g.raised \/ g.reply = MsgError
    THEN [status |-> 500, reply |-> << >>, calls |-> g.calls, prompt |-> g.prompt,
          reached |-> TRUE]
    ELSE [status |-> 200, reply |-> g.reply, calls |-> g.calls, prompt |-> g.prompt,
          reached |-> TRUE]

\* lines 130-142, given what generate_response did
Respond(g) ==
    IF g.raised
    THEN [status |-> 500, reply |-> << >>, calls |-> g.calls, prompt |-> g.prompt,
          reached |-> TRUE]
    ELSE [status |-> 200, reply |-> g.reply, calls |-> g.calls, prompt |-> g.prompt,
          reached |-> TRUE]

\* chat_endpoint without the blank-message check of lines 121-126
chat_endpoint_accepts_blank(agent, m, key, env_set, user_message, env) ==
    IF agent = "None" \/ m = "None" THEN Refused(503)
    ELSE Respond(generate_response(m, key, env_set, user_message, env))

\* chat_endpoint(request): [status, reply, calls, prompt, reached]
chat_endpoint(agent, m, key, env_set, user_message, env) ==
    IF agent = "None" \/ m = "None" THEN Refused(503)
    ELSE IF user_message = << >> \/ Strip(user_message) = << >> THEN Refused(400)
    ELSE Respond(generate_response(m, key, env_set, user_message, env))

\* what the operation saw of the outside world: the outcome of every external
\* call it issued (a call it did not issue has no outcome)
NotCalled == [raise |-> FALSE]
Observed(env, c) ==
    [embed |-> IF \E i \in 1..Len(c) : c[i] = "embed" THEN env.embed ELSE NotCalled,
     client |-> IF \E i \in 1..Len(c) : c[i] = "create_client" THEN env.client ELSE NotCalled,
     rpc |-> IF \E i \in 1..Len(c) : c[i] = "rpc" THEN env.rpc ELSE NotCalled,
     gen |-> IF \E i \in 1..Len(c) : c[i] = "generate" THEN env.gen ELSE NotCalled]

----------------------------------------------------------------------------
(* State machine *)

\* RAGAgent.__init__: the model handle
RAGAgent_init(key, loads) ==
    IF key THEN (IF loads THEN "GenerativeModel" ELSE "None") ELSE "None"

Init ==
    /\ GEMINI_API_KEY \in BOOLEAN
    /\ SUPABASE_ENV \in BOOLEAN
    /\ \E constructed \in BOOLEAN, loads \in BOOLEAN :
        /\ rag_agent = IF constructed THEN "RAGAgent" ELSE "None"
        /\ model = IF constructed THEN RAGAgent_init(GEMINI_API_KEY, loads) ELSE "None"
    /\ op = "idle"
    /\ in_text = << >>
    /\ in_vec = << >>
    /\ in_docs = NoneList
    /\ world = Observed(AnyEnv, << >>)
    /\ calls = << >>
    /\ raised = FALSE
    /\ out_vec = NoVec
    /\ out_docs = NoneList
    /\ out_text = << >>
    /\ prompt = << >>
    /\ status = 0
    /\ reached = FALSE

\* a direct call of build_context_string
BuildContext ==
    /\ op = "idle"
    /\ \E d \in {NoneList} \cup { SomeList(l) : l \in DocLists } :
        LET r == build_context_string(d)
        IN  /\ op' = "build_context_string"
            /\ in_docs' = d
            /\ raised' = r.raised
            /\ out_text' = r.value
            /\ UNCHANGED <<in_text, in_vec, world, calls, out_vec, out_docs, prompt,
                           status, reached>>
            /\ UNCHANGED config

\* a direct call of get_gemini_embedding
GetEmbedding ==
    /\ op = "idle"
    /\ \E text \in Queries, env \in Envs :
        LET r == get_gemini_embedding(GEMINI_API_KEY, text, env.embed)
        IN  /\ env = DefaultEnv(env.embed, DefaultClient, DefaultRpc, DefaultGen)
            /\ op' = "get_gemini_embedding"
            /\ in_text' = text
            /\ world' = Observed(env, r.calls)
            /\ calls' = r.calls
            /\ out_vec' = r.ret
            /\ UNCHANGED <<in_vec, in_docs, raised, out_docs, out_text, prompt,
                           status, reached>>
            /\ UNCHANGED config

\* a direct call of query_supabase_vector
QueryVector ==
    /\ op = "idle"
    /\ \E v \in {<< >>, <<1>>}, env \in Envs :
        LET r == query_supabase_vector(SUPABASE_ENV, v, env.client, env.rpc)
        IN  /\ env = DefaultEnv(DefaultEmbed, env.client, env.rpc, DefaultGen)
            /\ op' = "query_supabase_vector"
            /\ in_vec' = v
            /\ world' = Observed(env, r.calls)
            /\ calls' = r.calls
            /\ out_docs' = r.ret
            /\ UNCHANGED <<in_text, in_docs, raised, out_vec, out_text, prompt,
                           status, reached>>
            /\ UNCHANGED config

\* a direct call of VectorRetrievalTool.retrieve_and_build_context
Retrieve ==
    /\ op = "idle"
    /\ \E query \in Queries, env \in Envs :
        LET r == retrieve_and_build_context(GEMINI_API_KEY, SUPABASE_ENV, query, env)
        IN  /\ env = DefaultEnv(env.embed, env.client, env.rpc, DefaultGen)
            /\ op' = "retrieve_and_build_context"
            /\ in_text' = query
            /\ world' = Observed(env, r.calls)
            /\ calls' = r.calls
            /\ raised' = r.raised
            /\ out_docs' = r.retrieved_docs
            /\ out_text' = r.context
            /\ UNCHANGED <<in_vec, in_docs, out_vec, prompt, status, reached>>
            /\ UNCHANGED config

\* a direct call of RAGAgent.generate_response on the constructed agent
GenerateResponse ==
    /\ op = "idle"
    /\ rag_agent = "RAGAgent"
    /\ \E user_query \in Queries, env \in Envs :
        LET r == generate_response(model, GEMINI_API_KEY, SUPABASE_ENV, user_query, env)
        IN  /\ op' = "generate_response"
            /\ in_text' = user_query
            /\ world' = Observed(env, r.calls)
            /\ calls' = r.calls
            /\ raised' = r.raised
            /\ out_text' = r.reply
            /\ prompt' = r.prompt
            /\ reached' = TRUE
            /\ UNCHANGED <<in_vec, in_docs, out_vec, out_docs, status>>
            /\ UNCHANGED config

\* POST /chatbot
ChatEndpoint ==
    /\ op = "idle"
    /\ \E user_message \in Queries, env \in Envs :
        LET r == chat_endpoint(rag_agent, model, GEMINI_API_KEY, SUPABASE_ENV,
                               user_message, env)
        IN  /\ op' = "chat_endpoint"
            /\ in_text' = user_message
            /\ world' = Observed(env, r.calls)
            /\ calls' = r.calls
            /\ out_text' = r.reply
            /\ prompt' = r.prompt
            /\ status' = r.status
            /\ reached' = r.reached
            /\ UNCHANGED <<in_vec, in_docs, raised, out_vec, out_docs>>
            /\ UNCHANGED config

\* the call has returned to its caller: nothing of it is kept (no state is
\* shared between requests)
EndRequest ==
    /\ op # "idle"
    /\ op' = "idle"
    /\ in_text' = << >>
    /\ in_vec' = << >>
    /\ in_docs' = NoneList
    /\ world' = Observed(AnyEnv, << >>)
    /\ calls' = << >>
    /\ raised' = FALSE
    /\ out_vec' = NoVec
    /\ out_docs' = NoneList
    /\ out_text' = << >>
    /\ prompt' = << >>
    /\ status' = 0
    /\ reached' = FALSE
    /\ UNCHANGED config

Next ==
    \/ EndRequest
    \/ BuildContext
    \/ GetEmbedding
    \/ QueryVector
    \/ Retrieve
    \/ GenerateResponse
    \/ ChatEndpoint

Spec == Init /\ [][Next]_vars

----------------------------------------------------------------------------
(* Properties *)

Called(name) == \E i \in 1..Len(calls) : calls[i] = name

EmptyResult == out_text = << >> /\ out_docs = SomeList(<< >>)

\* the embedding stage failed: no call was possible, the provider raised, or
\* it returned no vector
EmbeddingFailed ==
    ~Called("embed") \/ world.embed.raise \/ world.embed.embedding = << >>

\* the search stage failed: no client, or the RPC raised
SearchFailed ==
    ~EmbeddingFailed /\ (~Called("rpc") \/ world.rpc.raise)

\* the search succeeded and returned these documents
SearchSucceeded == ~EmbeddingFailed /\ Called("rpc") /\ ~world.rpc.raise

\* context building raised on the documents the search returned
BuildFailed ==
    /\ SearchSucceeded
    /\ build_context_string(world.rpc.data).raised

\* C1: retrieve_and_build_context never raises; it always returns a context
\* and a retrieved_docs list, and after a failure or an exception at any
\* stage (embedding, client, RPC, context building) that result is exactly
\* {context: "", retrieved_docs: []}.
C1_RetrieveNeverRaises ==
    op = "retrieve_and_build_context" =>
        /\ ~raised
        /\ ~out_docs.none
        /\ (EmbeddingFailed \/ SearchFailed \/ BuildFailed) => EmptyResult

\* C1 witness: the search returned a document on which context building
\* raised, and the call returned the empty result.
C1_Witness ==
    /\ op = "retrieve_and_build_context"
    /\ BuildFailed
    /\ EmptyResult

\* a document with a non-empty content field
NonEmptyContent(d) ==
    d.isdict /\ d.has /\ d.content # PyNone /\ d.content # PyStr(<< >>)

\* C2: in every result of retrieve_and_build_context the context is empty
\* iff retrieved_docs is empty or none of its documents has a non-empty
\* content field; a failed embedding or search returns neither documents nor
\* context.
C2_ContextEmptyIff ==
    op = "retrieve_and_build_context" =>
        /\ (out_text = << >>) <=>
               (\/ out_docs.list = << >>
                \/ \A i \in 1..Len(out_docs.list) : ~NonEmptyContent(out_docs.list[i]))
        /\ (EmbeddingFailed \/ SearchFailed) => EmptyResult

\* C2 witness: documents were retrieved, none with content, and the context
\* is empty.
C2_Witness ==
    /\ op = "retrieve_and_build_context"
    /\ Len(out_docs.list) = 2
    /\ out_text = << >>

\* the contents of the documents that have a present, non-empty content
\* field, in input order, joined with "\n---\n"
RECURSIVE JoinedContents(_)
JoinedContents(l) ==
    IF l = << >> THEN << >>
    ELSE LET rest == JoinedContents(Tail(l))
         IN  IF ~NonEmptyContent(Head(l)) THEN rest
             ELSE IF rest = << >> THEN Head(l).content.s
             ELSE Head(l).content.s \o <<"\n", "-", "-", "-", "\n">> \o rest

\* C3: for every docs sequence (or None) build_context_string returns the
\* non-empty contents in input order joined with the delimiter (the empty
\* string when there are none), and it never fails.
C3_BuildJoinsAndNeverFails ==
    op = "build_context_string" =>
        /\ ~raised
        /\ out_text = JoinedContents(in_docs.list)

\* every content field of the list is absent, None or a str
TextContents(l) ==
    \A i \in 1..Len(l) : l[i].content.t \in {"none", "str"}

\* C3, on lists whose content fields are text or absent: the result is the
\* joined contents and the call does not fail.
C3_BuildJoinsTextContents ==
    (op = "build_context_string" /\ TextContents(in_docs.list)) =>
        /\ ~raised
        /\ out_text = JoinedContents(in_docs.list)

\* C3: a list with two usable contents was joined.
C3_JoinedTwo ==
    /\ op = "build_context_string"
    /\ out_text = <<"b", "\n", "-", "-", "-", "\n", "a">>

\* every document has a usable content: a non-empty str
AllUsable(l) ==
    \A i \in 1..Len(l) :
        l[i].isdict /\ l[i].has /\ l[i].content.t = "str" /\ l[i].content.s # << >>

\* C4: when the embedding succeeds and the search succeeds with N > 0
\* documents that have usable content, retrieved_docs is the search result,
\* unmodified and in order, and the context is not empty.
C4_DocsReturnedUnmodified ==
    (/\ op = "retrieve_and_build_context"
     /\ SearchSucceeded
     /\ ~world.rpc.data.none
     /\ world.rpc.data.list # << >>
     /\ AllUsable(world.rpc.data.list)) =>
        /\ out_docs = world.rpc.data
        /\ Len(out_docs.list) = Len(world.rpc.data.list)
        /\ out_text # << >>

\* C4 witness: two usable documents were found and returned.
C4_Witness ==
    /\ op = "retrieve_and_build_context"
    /\ SearchSucceeded
    /\ ~world.rpc.data.none
    /\ Len(world.rpc.data.list) = 2
    /\ AllUsable(world.rpc.data.list)
    /\ world.rpc.data.list[1] # world.rpc.data.list[2]
    /\ out_docs = world.rpc.data

\* C5: with model = None every generate_response returns the unavailability
\* message and makes no remote call (no embedding, no RPC, no generation).
C5_UninitializedNoCalls ==
    (op = "generate_response" /\ model = "None") =>
        /\ out_text = MsgUnavailable
        /\ ~Called("embed") /\ ~Called("rpc") /\ ~Called("generate")
        /\ calls = << >>

\* C5 witness: generate_response was called with a real query on an agent
\* whose model is None although the credential is configured.
C5_Witness ==
    /\ op = "generate_response"
    /\ model = "None"
    /\ GEMINI_API_KEY
    /\ in_text = <<"q">>
    /\ out_text = MsgUnavailable

\* the generation call returned no text
NoText ==
    /\ Called("generate")
    /\ \/ world.gen.kind = "falsy"
       \/ world.gen.kind = "text" /\ world.gen.text \in {PyNone, PyStr(<< >>)}

\* C6: the three fixed messages are pairwise distinct; generate_response
\* returns the unavailability message when the model is None, the blocked
\* message when the generation call returns no text, and the generic error
\* message when an exception reaches its handler (the generation call or the
\* response's text raises; the retrieval stages absorb their own); no
\* exception leaves generate_response.
C6_FailureMessages ==
    /\ MsgUnavailable # MsgBlocked
    /\ MsgUnavailable # MsgError
    /\ MsgBlocked # MsgError
    /\ op = "generate_response" =>
        /\ ~raised
        /\ (model = "None") => out_text = MsgUnavailable
        /\ (model # "None" /\ NoText) => out_text = MsgBlocked
        /\ (model # "None" /\ Called("generate")
                /\ world.gen.kind \in {"raise", "text_raises"}) => out_text = MsgError

\* C6 witness: the provider raised while generating and the reply is the
\* generic error message.
C6_Witness ==
    /\ op = "generate_response"
    /\ model # "None"
    /\ Called("generate")
    /\ world.gen.kind = "raise"
    /\ out_text = MsgError

\* the context the retrieval of this request returned
RetrievedContext ==
    retrieve_and_build_context(GEMINI_API_KEY, SUPABASE_ENV, in_text, world).context

HasPart(name) == \E i \in 1..Len(prompt) : prompt[i].part = name

\* generate_response ran with an initialized model
Generated ==
    /\ model # "None"
    /\ op = "generate_response" \/ (op = "chat_endpoint" /\ reached)

\* C7: with an initialized model the generation call is made in every
\* request, once and after the retrieval calls, whatever the retrieval did;
\* its prompt holds the begin and end markers with the context between them
\* iff the retrieved context is non-empty and the "no context" marker
\* otherwise, in the order system instruction, context part, user query.
C7_PromptVariants ==
    Generated =>
        /\ Called("generate")
        /\ calls[Len(calls)] = "generate"
        /\ \A i \in 1..(Len(calls) - 1) : calls[i] # "generate"
        /\ Len(prompt) >= 3
        /\ prompt[1].part = "system_instruction"
        /\ (RetrievedContext # << >>) <=>
              /\ prompt[2].part = "context_begin_marker"
              /\ prompt[3] = Part("context", RetrievedContext)
              /\ prompt[4].part = "context_end_marker"
        /\ (RetrievedContext # << >>) <=>
              (HasPart("context_begin_marker") /\ HasPart("context_end_marker"))
        /\ (RetrievedContext = << >>) <=> prompt[2].part = "no_context_marker"
        /\ (RetrievedContext = << >>) <=> HasPart("no_context_marker")
        /\ \E j \in 3..Len(prompt) :
              /\ prompt[j] = Part("user_query", in_text)
              /\ \A i \in 1..Len(prompt) :
                    prompt[i].part \in {"system_instruction", "no_context_marker",
                                        "context_begin_marker", "context",
                                        "context_end_marker"} => i < j

\* C7 witness: the embedding provider raised, and the model was still called,
\* with the no-context prompt.
C7_Witness ==
    /\ Generated
    /\ Called("embed")
    /\ world.embed.raise
    /\ calls = <<"embed", "generate">>
    /\ prompt[2].part = "no_context_marker"
    /\ in_text = <<"q">>

\* a message that is empty or only whitespace
Blank(t) == \A i \in 1..Len(t) : t[i] \in {" ", "\n", "\t"}

\* C8 as stated: a blank message gets HTTP 400 and never reaches
\* generate_response, in every state of the agent.
C8_BlankIs400Always ==
    (op = "chat_endpoint" /\ Blank(in_text)) =>
        /\ status = 400
        /\ ~reached

\* C8 amended: a blank message never reaches generate_response and causes no
\* remote call in any state of the agent; it is answered 400 when the agent
\* and its model are initialized and 503 otherwise (the readiness check comes
\* first).
C8_BlankNeverReachesCore ==
    (op = "chat_endpoint" /\ Blank(in_text)) =>
        /\ ~reached
        /\ calls = << >>
        /\ status = IF rag_agent = "RAGAgent" /\ model = "GenerativeModel"
                    THEN 400 ELSE 503

\* C8 witness: a whitespace-only message was rejected with 400 by a ready
\* service.
C8_Witness ==
    /\ op = "chat_endpoint"
    /\ in_text = <<" ">>
    /\ model = "GenerativeModel"
    /\ status = 400
    /\ ~reached

\* C9: query_supabase_vector returns None exactly when the call failed (empty
\* vector, no client, RPC raised), the empty list when the RPC succeeded with
\* no match, and the N documents when it succeeded with N matches; without a
\* vector or a client no RPC is issued.
C9_ThreeOutcomes ==
    op = "query_supabase_vector" =>
        LET sent == Called("rpc")
            ok == sent /\ ~world.rpc.raise
        IN  /\ (in_vec = << >>) => (~sent /\ calls = << >>)
            /\ (~SUPABASE_ENV \/ (Called("create_client") /\ world.client.raise)) => ~sent
            /\ out_docs.none <=> ~ok
            /\ (ok /\ (world.rpc.data.none \/ world.rpc.data.list = << >>)) =>
                   out_docs = SomeList(<< >>)
            /\ (ok /\ ~world.rpc.data.none /\ world.rpc.data.list # << >>) =>
                   out_docs = world.rpc.data

\* C9 witness: the RPC succeeded with no match and the empty list, not None,
\* was returned.
C9_Witness ==
    /\ op = "query_supabase_vector"
    /\ Called("rpc")
    /\ ~world.rpc.raise
    /\ world.rpc.data.none
    /\ out_docs = SomeList(<< >>)

\* C10: a non-blank message gets an error response only when the agent or
\* its model is not initialized (503); with an initialized model every
\* outcome of the embedding, search and generation calls ends in a 200 reply
\* that is the stripped model text or one of the fixed messages.
C10_OnlyUnavailableFails ==
    (op = "chat_endpoint" /\ ~Blank(in_text)) =>
        /\ (status # 200) <=> (rag_agent = "None" \/ model = "None")
        /\ (status # 200) => (status = 503 /\ ~reached)
        /\ (status = 200) =>
              /\ reached
              /\ \/ out_text \in {MsgBlocked, MsgError}
                 \/ /\ world.gen.kind = "text"
                    /\ world.gen.text.t = "str"
                    /\ out_text = Strip(world.gen.text.s)

\* C10 witness: the generation call raised after a failed search and the
\* endpoint still answered 200 with the generic error message.
C10_Witness ==
    /\ op = "chat_endpoint"
    /\ status = 200
    /\ Called("rpc")
    /\ world.rpc.raise
    /\ world.gen.kind = "raise"
    /\ out_text = MsgError

\* how often the operation issued the call
Count(name) == Cardinality({ i \in 1..Len(calls) : calls[i] = name })

\* name1 was never issued after name2
Before(name1, name2) ==
    \A i, j \in 1..Len(calls) : (calls[i] = name1 /\ calls[j] = name2) => i < j

\* C11: within one request each remote call (embedding, search RPC,
\* generation) is made at most once, a failed one included; the embedding
\* call comes before the RPC, the RPC is issued only after the embedding
\* returned a non-empty vector, and the generation call comes last, after
\* the retrieval calls.
C11_CallsOrderedOnce ==
    /\ Count("embed") <= 1
    /\ Count("rpc") <= 1
    /\ Count("generate") <= 1
    /\ Before("embed", "rpc")
    /\ Before("embed", "generate")
    /\ Before("create_client", "rpc")
    /\ Before("rpc", "generate")
    /\ (Called("rpc") /\ op # "query_supabase_vector") =>
          /\ Called("embed")
          /\ ~world.embed.raise
          /\ world.embed.embedding # << >>
    /\ (Called("rpc") /\ op = "query_supabase_vector") => in_vec # << >>
    /\ Called("generate") => calls[Len(calls)] = "generate"
    /\ (Called("embed") /\ world.embed.raise) => (Count("embed") = 1 /\ ~Called("rpc"))
    /\ (Called("rpc") /\ world.rpc.raise) => Count("rpc") = 1
    /\ (Called("generate") /\ world.gen.kind = "raise") => Count("generate") = 1

\* C11 witness: a request issued all three remote calls, in order, and the
\* last one failed without being repeated.
C11_Witness ==
    /\ op = "chat_endpoint"
    /\ calls = <<"embed", "create_client", "rpc", "generate">>
    /\ world.gen.kind = "raise"
    /\ out_text = MsgError

\* the model answered with text that is not empty but only whitespace
WhitespaceOnlyText ==
    /\ Called("generate")
    /\ world.gen.kind = "text"
    /\ world.gen.text.t = "str"
    /\ world.gen.text.s # << >>
    /\ Blank(world.gen.text.s)

\* C12: every reply of generate_response is a non-empty string; model
\* output that is empty or only whitespace ends in the blocked message.
C12_ReplyNeverEmpty ==
    op = "generate_response" =>
        /\ out_text # << >>
        /\ (NoText \/ WhitespaceOnlyText) => out_text = MsgBlocked

\* C12, apart from whitespace-only output: the reply is empty only when the
\* model's text is non-empty and all whitespace, and is then the empty
\* string, not the blocked message.
C12_EmptyOnlyForWhitespace ==
    op = "generate_response" =>
        /\ (out_text = << >>) <=> (model # "None" /\ WhitespaceOnlyText)
        /\ (model # "None" /\ NoText) => out_text = MsgBlocked

====
